---- MODULE Spec2Model ----
(***************************************************************************)
(* create_phase9.py: read a planning document, take the text from the      *)
(* "### Phase 9" marker to the end, split it into (number, title, body)    *)
(* groups with one regular expression, and file one issue per group.       *)
(*                                                                         *)
(* Text is a sequence of one-character strings.  Positions inside the      *)
(* regular-expression operators are 1-based; str.find keeps Python's       *)
(* 0-based result and its -1.                                              *)
(***************************************************************************)
EXTENDS Integers, Sequences, FiniteSets

\* ------------------------------------------------------------------ bounds
\* Longest document, in lines, that the file read may return.
MaxLines == 4
\* Largest issue number the tracker may assign.
MaxIssueNumber == 1

\* ------------------------------------------------------------ text helpers
Digits == {"0", "1", "2", "3", "4", "5", "6", "7", "8", "9"}

\* The characters str.strip() removes (those of the document alphabet).
Whitespace == {" ", "\n"}

\* The literal searched for by content.find.
MARKER == <<"#", "#", "#", " ", "P", "h", "a", "s", "e", " ", "9">>

\* The literal "#### " that opens the pattern.
HASHES == <<"#", "#", "#", "#", " ">>

\* The literal "\. " between the number and the title.
DOTSPACE == <<".", " ">>

\* text[s-1:].startswith(lit), s a 1-based position.
StartsWithAt(text, s, lit) ==
    /\ s >= 1
    /\ s + Len(lit) - 1 <= Len(text)
    /\ \A k \in 1..Len(lit) : text[s + k - 1] = lit[k]

\* str.rfind: the highest 0-based index at which sub occurs, -1 when none.
rfind(text, sub) ==
    LET occ == {p \in 0..(Len(text) - Len(sub)) : StartsWithAt(text, p + 1, sub)}
    IN  IF occ = {} THEN -1 ELSE CHOOSE p \in occ : \A q \in occ : q <= p

RECURSIVE findFrom(_, _, _)
findFrom(text, sub, p) ==
    IF p + Len(sub) > Len(text) THEN -1
    ELSE IF StartsWithAt(text, p + 1, sub) THEN p
    ELSE findFrom(text, sub, p + 1)

\* str.find: the lowest 0-based index at which sub occurs, -1 when none.
find(text, sub) == findFrom(text, sub, 0)

\* text[start:] with Python's slice rules (a negative start counts from the end).
SliceFrom(text, start) ==
    IF start >= 0 THEN SubSeq(text, start + 1, Len(text))
    ELSE SubSeq(text, (IF Len(text) + start < 0 THEN 0 ELSE Len(text) + start) + 1, Len(text))

\* str.lstrip(): leading whitespace removed only.
RECURSIVE lstrip(_)
lstrip(s) ==
    IF s # <<>> /\ Head(s) \in Whitespace THEN lstrip(Tail(s)) ELSE s

RECURSIVE rstrip(_)
rstrip(s) ==
    IF s # <<>> /\ s[Len(s)] \in Whitespace THEN rstrip(SubSeq(s, 1, Len(s) - 1)) ELSE s

\* str.strip(): leading and trailing whitespace removed.
strip(s) == rstrip(lstrip(s))

\* ------------------------------------------------------ the issue pattern
\* r"#### (\d+)\. (.+?)\n(.+?)(?=\n#### \d+|$)" compiled with re.DOTALL.

\* \d+ is greedy: the position just after the longest run of digits from p.
\* (Giving a digit back never helps: the next pattern item is "\.".)
RECURSIVE DigitsEnd(_, _)
DigitsEnd(text, p) ==
    IF p <= Len(text) /\ text[p] \in Digits THEN DigitsEnd(text, p + 1) ELSE p

\* "#### (\d+)" alone at s: the position after the digits, 0 when it does not match.
HeadAtNoDot(text, s) ==
    IF ~StartsWithAt(text, s, HASHES) THEN 0
    ELSE LET d == s + Len(HASHES)
             e == DigitsEnd(text, d)
         IN  IF e = d THEN 0 ELSE e

\* "#### (\d+)\. " at s: the position of the first title character, 0 when
\* the prefix does not match at s.
HeadAt(text, s) ==
    IF ~StartsWithAt(text, s, HASHES) THEN 0
    ELSE LET d == s + Len(HASHES)
             e == DigitsEnd(text, d)
         IN  IF e = d THEN 0
             ELSE IF StartsWithAt(text, e, DOTSPACE) THEN e + Len(DOTSPACE)
             ELSE 0

\* The lookahead with its "$" alternative left out: (?=\n#### \d+).
LookaheadNoEnd(text, p) ==
    /\ StartsWithAt(text, p, <<"\n">> \o HASHES)
    /\ p + 1 + Len(HASHES) <= Len(text)
    /\ text[p + 1 + Len(HASHES)] \in Digits

\* (?=\n#### \d+|$) at p, the position of the first character not consumed.
\* Without re.MULTILINE "$" holds at the end of the text and just before a
\* newline that is the text's last character.
Lookahead(text, p) ==
    \/ /\ StartsWithAt(text, p, <<"\n">> \o HASHES)
       /\ p + 1 + Len(HASHES) <= Len(text)
       /\ text[p + 1 + Len(HASHES)] \in Digits
    \/ p = Len(text) + 1
    \/ p = Len(text) /\ text[p] = "\n"

NoMatch == [start |-> 0, end |-> 0, num |-> <<>>, title |-> <<>>, body |-> <<>>]

Least(S) == CHOOSE x \in S : \A y \in S : x <= y

\* One attempt of the pattern at position s.  (.+?) is lazy and, under
\* DOTALL, "." is any character: the title is the shortest non-empty text
\* ending before a newline after which the rest can match, and the body the
\* shortest non-empty text after that newline at whose end the lookahead holds.
MatchAt(text, s) ==
    LET ts == HeadAt(text, s)
        bodyEnds(nl) == {p \in (nl + 2)..(Len(text) + 1) : Lookahead(text, p)}
        titleEnds == {nl \in (ts + 1)..Len(text) : text[nl] = "\n" /\ bodyEnds(nl) # {}}
    IN  IF ts = 0 \/ titleEnds = {} THEN NoMatch
        ELSE LET nl == Least(titleEnds)
                 e  == Least(bodyEnds(nl))
             IN  [start |-> s,
                  end   |-> e,
                  num   |-> SubSeq(text, s + Len(HASHES), ts - Len(DOTSPACE) - 1),
                  title |-> SubSeq(text, ts, nl - 1),
                  body  |-> SubSeq(text, nl + 1, e - 1)]

\* Pattern.search from pos: the match at the leftmost position that has one.
RECURSIVE search(_, _)
search(text, pos) ==
    IF pos > Len(text) THEN NoMatch
    ELSE LET m == MatchAt(text, pos)
         IN  IF m # NoMatch THEN m ELSE search(text, pos + 1)

\* The successive non-overlapping matches, each search starting where the
\* previous match ended (matches are never empty here).
RECURSIVE finditer(_, _)
finditer(text, pos) ==
    LET m == search(text, pos)
    IN  IF m = NoMatch THEN <<>> ELSE <<m>> \o finditer(text, m.end)

\* issue_pattern.findall: the three groups of every match, in order.
findall(text) ==
    LET ms == finditer(text, 1)
    IN  [k \in 1..Len(ms) |-> [num |-> ms[k].num, title |-> ms[k].title, body |-> ms[k].body]]

\* ------------------------------------------------------------ the document
\* Lines the planning document is made of: the section marker, headings
\* (complete, with nothing after ". ", and without the ". "), body text
\* and a blank line.
LineKinds ==
    { MARKER,
      <<"#", "#", "#", "#", " ", "7", ".", " ", "T", "i", "t", "l", "e">>,
      <<"#", "#", "#", "#", " ", "1", "0", ".", " ", "B">>,
      <<"#", "#", "#", "#", " ", "8", ".", " ">>,
      <<"#", "#", "#", "#", " ", "1", "2">>,
      <<"S", "o", "m", "e", " ", "b", "o", "d", "y", ".">>,
      <<>> }

RECURSIVE JoinLines(_)
JoinLines(ls) ==
    IF ls = <<>> THEN <<>>
    ELSE IF Len(ls) = 1 THEN ls[1]
    ELSE ls[1] \o <<"\n">> \o JoinLines(Tail(ls))

\* What f.read() may return: up to MaxLines lines joined by newlines (a
\* final blank line gives the trailing newline), with or without the
\* marker as first line.
Documents ==
    { JoinLines(h \o ls) :
        h \in {<<>>, <<MARKER>>},
        ls \in UNION {[1..n -> LineKinds] : n \in 0..MaxLines} }

\* What one urlopen + json.loads + res_data['number'] may do: yield the
\* number the tracker assigned, or raise (transport error, non-success
\* status, response without a usable "number").
Outcomes ==
    [ok : {TRUE}, number : 1..MaxIssueNumber, reason : {"none"}]
    \cup [ok : {FALSE}, number : {0}, reason : {"URLError", "HTTPError", "KeyError"}]

\* ------------------------------------------------------------------- state
VARIABLES
    pc,              \* where main is: start, find, parse, loop, urlopen, done, crashed
    content,         \* the document text read from FILE_PATH
    phase9_start,    \* result of content.find
    phase9_content,  \* content[phase9_start:]
    matches,         \* result of issue_pattern.findall
    i,               \* index in matches of the loop's current (num, title, body)
    events,          \* lines printed and requests sent, in the order they happen
    responses,       \* what the tracker did with each request so far
    returned         \* create_issue's return value for each call so far

vars == <<pc, content, phase9_start, phase9_content, matches, i, events, responses, returned>>

\* print(...) of one of the program's four messages.
Printed(msg, title, n, reason) ==
    [kind |-> "print", msg |-> msg, title |-> title, body |-> <<>>, n |-> n, reason |-> reason]

\* The POST of one issue: title and body of the JSON payload.
Posted(title, body) ==
    [kind |-> "request", msg |-> "POST", title |-> title, body |-> body, n |-> 0, reason |-> ""]

\* create_issue returns the issue number, or None.
ReturnValue(isNone, n) == [none |-> isNone, number |-> n]

\* full_title = f"{num}. {title.strip()}"
full_title(m) == m.num \o DOTSPACE \o strip(m.title)

\* clean_body = body.strip()
clean_body(m) == strip(m.body)

Init ==
    /\ pc = "start"
    /\ content = <<>>
    /\ phase9_start = 0
    /\ phase9_content = <<>>
    /\ matches = <<>>
    /\ i = 0
    /\ events = <<>>
    /\ responses = <<>>
    /\ returned = <<>>

\* with open(FILE_PATH, "r") as f: content = f.read()
ReadDocument ==
    /\ pc = "start"
    /\ \E d \in Documents : content' = d
    /\ pc' = "find"
    /\ UNCHANGED <<phase9_start, phase9_content, matches, i, events, responses, returned>>

\* The search for the marker with the "return" of the not-found branch missing.
ExtractSectionNoReturn ==
    /\ pc = "find"
    /\ phase9_start' = find(content, MARKER)
    /\ events' = IF phase9_start' = -1
                 THEN Append(events, Printed("Phase 9 not found", <<>>, 0, ""))
                 ELSE events
    /\ phase9_content' = SliceFrom(content, phase9_start')
    /\ pc' = "parse"
    /\ UNCHANGED <<content, matches, i, responses, returned>>

\* phase9_start = content.find("### Phase 9"); when -1, print and return;
\* otherwise phase9_content = content[phase9_start:].
ExtractSection ==
    /\ pc = "find"
    /\ phase9_start' = find(content, MARKER)
    /\ IF phase9_start' = -1
       THEN /\ events' = Append(events, Printed("Phase 9 not found", <<>>, 0, ""))
            /\ pc' = "done"
            /\ UNCHANGED phase9_content
       ELSE /\ phase9_content' = SliceFrom(content, phase9_start')
            /\ pc' = "parse"
            /\ UNCHANGED events
    /\ UNCHANGED <<content, matches, i, responses, returned>>

\* The parse without its report of the number of matches.
ParseEntriesSilent ==
    /\ pc = "parse"
    /\ matches' = findall(phase9_content)
    /\ i' = 1
    /\ pc' = "loop"
    /\ UNCHANGED <<content, phase9_start, phase9_content, events, responses, returned>>

\* matches = issue_pattern.findall(phase9_content); print the count; enter the loop.
ParseEntries ==
    /\ pc = "parse"
    /\ matches' = findall(phase9_content)
    /\ events' = Append(events, Printed("Found issues", <<>>, Len(matches'), ""))
    /\ i' = 1
    /\ pc' = "loop"
    /\ UNCHANGED <<content, phase9_start, phase9_content, responses, returned>>

\* One loop iteration up to the blocking call: build the title and body,
\* build the request and hand it to urlopen.
SendRequest ==
    /\ pc = "loop"
    /\ i <= Len(matches)
    /\ events' = Append(events, Posted(full_title(matches[i]), clean_body(matches[i])))
    /\ pc' = "urlopen"
    /\ UNCHANGED <<content, phase9_start, phase9_content, matches, i, responses, returned>>

\* create_issue without its try/except: an exception leaves main.
ReceiveUncaught(o) ==
    /\ pc = "urlopen"
    /\ responses' = Append(responses, o)
    /\ IF o.ok
       THEN /\ events' = Append(events, Printed("Created issue", full_title(matches[i]), o.number, ""))
            /\ returned' = Append(returned, ReturnValue(FALSE, o.number))
            /\ i' = i + 1
            /\ pc' = "loop"
       ELSE /\ pc' = "crashed"
            /\ UNCHANGED <<events, returned, i>>
    /\ UNCHANGED <<content, phase9_start, phase9_content, matches>>

\* create_issue calling itself again when the request failed.
ReceiveRetry(o) ==
    /\ pc = "urlopen"
    /\ responses' = Append(responses, o)
    /\ IF o.ok
       THEN /\ events' = Append(events, Printed("Created issue", full_title(matches[i]), o.number, ""))
            /\ returned' = Append(returned, ReturnValue(FALSE, o.number))
            /\ i' = i + 1
            /\ pc' = "loop"
       ELSE /\ events' = Append(events, Printed("Failed to create issue", full_title(matches[i]), 0, o.reason))
            /\ Len(responses) < 2 * MaxLines
            /\ pc' = "loop"
            /\ UNCHANGED <<returned, i>>
    /\ UNCHANGED <<content, phase9_start, phase9_content, matches>>

\* The rest of create_issue and of the iteration: the answer arrives; print
\* "Created issue #n: title" and return n, or catch the exception, print
\* "Failed to create issue title: e" and return None; go to the next match.
Receive(o) ==
    /\ pc = "urlopen"
    /\ responses' = Append(responses, o)
    /\ IF o.ok
       THEN /\ events' = Append(events, Printed("Created issue", full_title(matches[i]), o.number, ""))
            /\ returned' = Append(returned, ReturnValue(FALSE, o.number))
       ELSE /\ events' = Append(events, Printed("Failed to create issue", full_title(matches[i]), 0, o.reason))
            /\ returned' = Append(returned, ReturnValue(TRUE, 0))
    /\ i' = i + 1
    /\ pc' = "loop"
    /\ UNCHANGED <<content, phase9_start, phase9_content, matches>>

\* The for loop is exhausted and main returns.
Finish ==
    /\ pc = "loop"
    /\ i > Len(matches)
    /\ pc' = "done"
    /\ UNCHANGED <<content, phase9_start, phase9_content, matches, i, events, responses, returned>>

Next ==
    \/ ReadDocument
    \/ ExtractSection
    \/ ParseEntries
    \/ SendRequest
    \/ \E o \in Outcomes : Receive(o)
    \/ Finish

Spec == Init /\ [][Next]_vars

\* ------------------------------------------------- vocabulary of the claims
\* Stated on the text itself, without the operators that model the program.

\* lit occupies text from the 1-based position p on.
OccursAt(text, p, lit) ==
    /\ p >= 1
    /\ p + Len(lit) - 1 <= Len(text)
    /\ text[p] = lit[1]
    /\ \A k \in 2..Len(lit) : text[p + k - 1] = lit[k]

\* The 1-based positions at which lit occurs in text.
Occurrences(text, lit) == {p \in 1..Len(text) : OccursAt(text, p, lit)}

\* lit occurs somewhere in text.
Occurs(text, lit) == \E p \in 1..Len(text) : OccursAt(text, p, lit)

AtLineStart(text, p) == p = 1 \/ text[p - 1] = "\n"

\* "#### " and then a digit occupy text from position p on.
HashesDigitAt(text, p) ==
    /\ p + 5 <= Len(text)
    /\ text[p] = "#" /\ text[p + 1] = "#" /\ text[p + 2] = "#" /\ text[p + 3] = "#"
    /\ text[p + 4] = " "
    /\ text[p + 5] \in Digits

\* "#### ", n digits, ". " occupy text from position p on.
HeadingPrefixOfWidth(text, p, n) ==
    /\ p + 6 + n <= Len(text)
    /\ HashesDigitAt(text, p)
    /\ text[p + 5 + n] = "."
    /\ text[p + 6 + n] = " "
    /\ \A k \in 1..(n - 1) : text[p + 5 + k] \in Digits

\* A heading "#### <digits>. " begins at position p.
IsHeadingStart(text, p) ==
    HashesDigitAt(text, p) /\ \E n \in 1..(Len(text) - p - 6) : HeadingPrefixOfWidth(text, p, n)

\* Positions where a heading begins, anywhere in the text.
HeadingStarts(text) == {p \in 1..Len(text) : IsHeadingStart(text, p)}

\* The text holds a heading somewhere.
HasHeading(text) == \E p \in 1..Len(text) : IsHeadingStart(text, p)

\* Positions of the recognized heading lines: a heading at the start of a line.
HeadingLines(text) == {p \in HeadingStarts(text) : AtLineStart(text, p)}

\* The number of digits of the heading at p.
WidthAt(text, p) == CHOOSE n \in 1..(Len(text) - p - 6) : HeadingPrefixOfWidth(text, p, n)

\* The digits of the heading at p.
NumberAt(text, p) == SubSeq(text, p + 5, p + 4 + WidthAt(text, p))

\* The position of the line break ending the line p is on (Len + 1 when the text ends first).
LineEnd(text, p) ==
    LET nls == {q \in p..Len(text) : text[q] = "\n"}
    IN  IF nls = {} THEN Len(text) + 1 ELSE CHOOSE q \in nls : \A r \in nls : q <= r

\* What follows ". " on the heading line at p.
RestOfLine(text, p) == SubSeq(text, p + 7 + WidthAt(text, p), LineEnd(text, p) - 1)

\* The heading lines that end with a line break.
EndedHeadingLines(text) == {p \in HeadingLines(text) : LineEnd(text, p) <= Len(text)}

\* The k-th smallest element of a set of positions.
Nth(S, k) == CHOOSE p \in S : Cardinality({q \in S : q < p}) = k - 1

\* The search for the marker is over and found it; the parse is over too.
SectionFound == pc \in {"parse", "loop", "urlopen", "done"} /\ phase9_start # -1
Parsed == pc \in {"loop", "urlopen", "done"} /\ phase9_start # -1

Requests == SelectSeq(events, LAMBDA e : e.kind = "request")
FoundLines == SelectSeq(events, LAMBDA e : e.kind = "print" /\ e.msg = "Found issues")

\* ------------------------------------------------------------------ claims

\* C1: submission isolation.  Whatever the tracker does with each request,
\* a failure becomes a printed failure line and a None result, a success
\* becomes a printed created line and the issue number, the loop moves on
\* to the next match after either, main never ends by an exception, and a
\* finished run has submitted every match.
C1_SubmissionIsolation ==
    /\ pc # "crashed"
    /\ Len(returned) = Len(responses)
    /\ Len(events) >= 2 * Len(responses) + (IF Len(responses) > 0 THEN 1 ELSE 0)
    /\ \A k \in 1..Len(responses) :
         IF responses[k].ok
         THEN /\ returned[k] = [none |-> FALSE, number |-> responses[k].number]
              /\ events[2 * k + 1].msg = "Created issue"
              /\ events[2 * k + 1].n = responses[k].number
         ELSE /\ returned[k].none
              /\ events[2 * k + 1].msg = "Failed to create issue"
              /\ events[2 * k + 1].reason = responses[k].reason
    /\ pc = "loop" => i = Len(responses) + 1
    /\ (pc = "done" /\ phase9_start # -1) => Len(responses) = Len(matches)

\* C1 witness: a finished run in which one submission failed and a later one succeeded.
C1_Witness ==
    /\ pc = "done"
    /\ \E k \in 1..Len(responses) : \E j \in (k + 1)..Len(responses) :
         ~responses[k].ok /\ responses[j].ok /\ returned[k].none /\ ~returned[j].none

\* C2: section extraction.  Once the search is over: if the marker occurs
\* in the document, the section starts at its first occurrence and is the
\* document's text from there to the end; if it does not occur, the search
\* gives -1, no section is made and the run is over.
C2_SectionExtraction ==
    pc \notin {"start", "find"} =>
        IF Occurs(content, MARKER)
        THEN /\ OccursAt(content, phase9_start + 1, MARKER)
             /\ \A q \in 1..phase9_start : ~OccursAt(content, q, MARKER)
             /\ Len(phase9_content) = Len(content) - phase9_start
             /\ \A k \in 1..Len(phase9_content) : phase9_content[k] = content[phase9_start + k]
        ELSE phase9_start = -1 /\ phase9_content = <<>> /\ pc = "done"

\* C2 witness: the marker occurs twice, the first time not at the start of the document.
C2_Witness ==
    /\ pc = "parse"
    /\ Cardinality(Occurrences(content, MARKER)) >= 2
    /\ phase9_start > 0

\* C3: marker absent.  Once the search is over in a document without the
\* marker, the run is finished, the only output is the diagnostic, nothing
\* was parsed, no count was reported and no request was sent.
C3_MarkerAbsentStops ==
    (pc \notin {"start", "find"} /\ ~Occurs(content, MARKER)) =>
        /\ pc = "done"
        /\ events = <<Printed("Phase 9 not found", <<>>, 0, "")>>
        /\ matches = <<>>
        /\ responses = <<>>
        /\ returned = <<>>

\* C3 witness: a finished run on a document that has headings and bodies but no marker.
C3_Witness ==
    /\ pc = "done"
    /\ ~Occurs(content, MARKER)
    /\ HeadingLines(content) # {}

\* C4: N consecutive headings give N entries.  After the parse there is one
\* match per heading line of the section (a heading line ends with a line
\* break; its body may be empty), in document order (the k-th match carries
\* the number of the k-th heading line), and no match's body holds a
\* heading line.
C4_OneEntryPerHeading ==
    Parsed =>
        LET H == EndedHeadingLines(phase9_content)
        IN  /\ Len(matches) = Cardinality(H)
            /\ \A k \in 1..Len(matches) :
                 /\ matches[k].num = NumberAt(phase9_content, Nth(H, k))
                 /\ HeadingLines(matches[k].body) = {}

H7_TITLE_BODY ==
    <<"#", "#", "#", "#", " ", "7", ".", " ", "T", "i", "t", "l", "e", "\n",
      "S", "o", "m", "e", " ", "b", "o", "d", "y", ".">>

\* The section's only heading is the line "#### 7. Title", the text after
\* it is "Some body." and then nothing but whitespace.
OnlySevenTitle(text) ==
    \E p \in 1..Len(text) :
        /\ OccursAt(text, p, H7_TITLE_BODY)
        /\ AtLineStart(text, p)
        /\ \A q \in (p + Len(H7_TITLE_BODY))..Len(text) : text[q] \in Whitespace
        /\ \A q \in 1..Len(text) : IsHeadingStart(text, q) => q = p

C7_TitleFromHeadingLine ==
    Parsed =>
        \A k \in 1..Len(matches) :
            /\ \E p \in EndedHeadingLines(phase9_content) :
                 /\ NumberAt(phase9_content, p) = matches[k].num
                 /\ strip(RestOfLine(phase9_content, p)) = strip(matches[k].title)
            /\ LET t == strip(matches[k].title)
                   b == clean_body(matches[k])
               IN  /\ t # <<>> => (t[1] \notin Whitespace /\ t[Len(t)] \notin Whitespace)
                   /\ b # <<>> => (b[1] \notin Whitespace /\ b[Len(b)] \notin Whitespace)

\* C8: body boundary.  No body is cut short by anything that is not a
\* recognized heading line: every match ends at the end of the section (at
\* most whitespace is left) or at the line break before a heading line.
C8_BodyNeverCutShort ==
    Parsed =>
        LET ms == finditer(phase9_content, 1)
        IN  \A k \in 1..Len(ms) :
                \/ \A q \in ms[k].end..Len(phase9_content) : phase9_content[q] \in Whitespace
                \/ /\ phase9_content[ms[k].end] = "\n"
                   /\ IsHeadingStart(phase9_content, ms[k].end + 1)

\* C9: one attempt per entry, in order.  The requests sent so far are the
\* first matches, in order, each with title "<number>. <title>" and the
\* trimmed body; after the count line the output alternates request,
\* outcome line for that request; a request is in flight exactly while
\* main waits in urlopen; a finished run has sent exactly one request per
\* match.
C9_OneAttemptInOrder ==
    /\ Len(Requests) <= Len(matches)
    /\ \A k \in 1..Len(Requests) :
         /\ Requests[k].title = matches[k].num \o <<".", " ">> \o strip(matches[k].title)
         /\ Requests[k].body = strip(matches[k].body)
    /\ \A j \in 2..Len(events) :
         IF j % 2 = 0
         THEN events[j].kind = "request"
         ELSE /\ events[j].kind = "print"
              /\ events[j].msg \in {"Created issue", "Failed to create issue"}
              /\ events[j].title = events[j - 1].title
    /\ pc = "urlopen" <=> (events # <<>> /\ events[Len(events)].kind = "request")
    /\ (pc = "done" /\ phase9_start # -1) =>
         Len(Requests) = Len(matches) /\ Len(events) = 2 * Len(matches) + 1

\* C9 witness: a finished run over two different entries, the first of which failed.
C9_Witness ==
    /\ pc = "done"
    /\ Len(matches) = 2
    /\ matches[1] # matches[2]
    /\ ~responses[1].ok
    /\ Len(Requests) = 2

\* C10: the count comes first.  Before the parse nothing is printed or
\* sent; from the parse on, when the marker was found, the first event is
\* the count line, it is the only count line, it carries the number of
\* matches, and a finished run has sent that many requests.
C10_CountReportedFirst ==
    /\ pc \in {"start", "find", "parse"} => events = <<>>
    /\ Parsed =>
         /\ Len(events) >= 1
         /\ events[1] = Printed("Found issues", <<>>, Len(matches), "")
         /\ Len(FoundLines) = 1
         /\ pc = "done" => Len(Requests) = events[1].n

\* C10 witness: a finished run that reported two issues and sent two requests.
C10_Witness ==
    /\ pc = "done"
    /\ Len(FoundLines) = 1
    /\ FoundLines[1].n = 2
    /\ Len(Requests) = 2

====
